---- MODULE Spec2Model ----
(***************************************************************************)
(* epicbox: the attach-stream codec, the non-blocking I/O pump             *)
(* (epicbox/utils.py) and the sandbox lifecycle built on top of them       *)
(* (epicbox/sandboxes.py, known here through tests/test_sandboxes.py and   *)
(* the design document).                                                   *)
(*                                                                         *)
(* Bytes are integers 0..255, byte strings are sequences of bytes.         *)
(***************************************************************************)
EXTENDS Integers, Sequences, FiniteSets, TLC

(***************************************************************************)
(* Bounds of the model.                                                    *)
(***************************************************************************)
\* longest payload of one frame drawn for the codec
MaxPayload == 2
\* most frames in one drawn frame stream
MaxFrames == 2
\* most bytes one socket read returns (the code asks for 4096)
MaxRead == 4

(***************************************************************************)
(* Python values.                                                          *)
(***************************************************************************)
\* Python's None, where an integer is expected (exit_code, timeout, duration)
Null == 0 - 2

\* data[a:b] of Python, 0-based, clamped to the length of data
Slice(data, a, b) ==
    LET lo == IF a < 0 THEN 0 ELSE a
        hi == IF b > Len(data) THEN Len(data) ELSE b
    IN  IF hi <= lo THEN << >> ELSE [i \in 1..(hi - lo) |-> data[lo + i]]

\* b"".join(chunks)
RECURSIVE Join(_)
Join(chunks) ==
    IF chunks = << >> THEN << >> ELSE Head(chunks) \o Join(Tail(chunks))

(***************************************************************************)
(* The stream multiplexer codec.                                           *)
(***************************************************************************)
STREAM_HEADER_SIZE_BYTES == 8

\* the header unpacked with the length read little-endian ("<BxxxL")
UnpackHeaderLittleEndian(header) ==
    [stream_type |-> header[1],
     length |-> ((header[8] * 256 + header[7]) * 256 + header[6]) * 256 + header[5]]

\* struct.unpack_from(">BxxxL", header): byte 0, then bytes 4..7 big-endian
UnpackHeader(header) ==
    [stream_type |-> header[1],
     length |-> ((header[5] * 256 + header[6]) * 256 + header[7]) * 256 + header[8]]

\* a decoder that takes the bytes left after the last whole header as stdout
\* instead of ignoring them
RECURSIVE DemuxLoopKeepsTail(_, _, _, _)
DemuxLoopKeepsTail(data, walker, stdout_chunks, stderr_chunks) ==
    IF Len(data) - walker >= 8
    THEN LET header == Slice(data, walker, walker + STREAM_HEADER_SIZE_BYTES)
             h == UnpackHeader(header)
             start == walker + STREAM_HEADER_SIZE_BYTES
             end == start + h.length
         IN  DemuxLoopKeepsTail(data, end,
                 IF h.stream_type = 1
                 THEN Append(stdout_chunks, Slice(data, start, end))
                 ELSE stdout_chunks,
                 IF h.stream_type = 2
                 THEN Append(stderr_chunks, Slice(data, start, end))
                 ELSE stderr_chunks)
    ELSE <<Join(stdout_chunks) \o Slice(data, walker, Len(data)),
           Join(stderr_chunks)>>

\* the while loop of demultiplex_docker_stream, from `walker` on
RECURSIVE DemuxLoop(_, _, _, _)
DemuxLoop(data, walker, stdout_chunks, stderr_chunks) ==
    IF Len(data) - walker >= 8
    THEN LET header == Slice(data, walker, walker + STREAM_HEADER_SIZE_BYTES)
             h == UnpackHeader(header)
             start == walker + STREAM_HEADER_SIZE_BYTES
             end == start + h.length
         IN  DemuxLoop(data, end,
                 IF h.stream_type = 1
                 THEN Append(stdout_chunks, Slice(data, start, end))
                 ELSE stdout_chunks,
                 IF h.stream_type = 2
                 THEN Append(stderr_chunks, Slice(data, start, end))
                 ELSE stderr_chunks)
    ELSE <<Join(stdout_chunks), Join(stderr_chunks)>>

demultiplex_docker_stream(data) == DemuxLoop(data, 0, << >>, << >>)


(***************************************************************************)
(* State.                                                                  *)
(***************************************************************************)
VARIABLES
    \* the engine's view of the sandbox's container
    cstate,        \* "none" | "created" | "running" | "exited" | "removed"
    prog,          \* the command of the container: "cat" | "exit" | "sleep"
    exitCode,      \* State.ExitCode
    oomKilled,     \* State.OOMKilled
    startedAt,     \* State.StartedAt
    finishedAt,    \* State.FinishedAt
    inbuf,         \* bytes delivered to the container's stdin, not yet consumed
    stdinOpen,     \* the container's stdin of the current attachment is open
    wire,          \* bytes the engine has sent that the client has not read yet
    peer,          \* the engine's side of the attach stream: "open" | "closed" | "reset"
    clog,          \* the container's log: all it ever wrote to stdout
    ncreated,      \* container-create calls the engine has served
    \* docker_communicate
    pc,            \* position in docker_communicate
    stdin,         \* the local `stdin` (remaining input)
    stdin_none,    \* `stdin is None`
    stream_data,
    sock,          \* "none" | "open" | "closed"
    start_time,
    timeout,
    read_ready,
    write_ready,
    is_io_active,
    pumpOut,       \* "none" | "returned" | "timeout" | "error"
    ret,           \* the returned (stdout, stderr)
    now,           \* time.monotonic(), counted from the call of start()
    \* what happened in the current session (history, not read by the code)
    stdin0,        \* the input as passed in
    accepted,      \* the bytes the socket has accepted, in order
    partial,       \* a write accepted fewer bytes than it was given
    shutdowns,     \* where sock.shutdown(SHUT_WR) was called, in order
    closes,        \* number of sock.close() calls
    observed,      \* "none" | "eof" | "reset" | "epipe": what ended the loop
    headExpired,   \* the loop-head check found the deadline elapsed
    faults,        \* transport/OS errors injected in this session
    killed,        \* the kernel killed the container's process in this session
    oserr,         \* errno of the os.write of the iteration just finished
    \* sandboxes.py
    sandbox,       \* "none" | "created" | "running" | "exited" | "destroyed"
    realtime_limit,
    mode,          \* "none" | "scope" | "run": who owns the sandbox
    api,           \* "idle" | "start": a start() call is in progress
    nstarts,       \* start() calls made on the sandbox
    last,          \* how the latest start() call ended, until the next one
    runOut,        \* "none" | "returned" | "raised": how run() ended
    destroyedFrom, \* the container's state when it was removed
    \* the codec on its own
    frames,        \* the frame stream drawn for the codec
    chunks,        \* number of reads that delivered it
    \* a working_directory() scope and the run() calls given its handle
    wd,            \* "none" | "open" | "closed": the scope
    wdExit,        \* "none" | "normal" | "raised": how the scope was left
    volume,        \* "absent" | "present": the backing volume in the engine
    volFiles,      \* names of the files in the volume
    written,       \* names of the files written while the scope was open
    wdSandbox,     \* "none" | "created" | "exited" | "destroyed": run()'s sandbox
    wdRuns,        \* run() calls finished in the scope
    \* the resource limit translator on its own
    limits,        \* the `limits` argument of create()
    merged,        \* what merge_limits_defaults returned, or that it raised
    ulimits,       \* what create_ulimits returned for the merged set
    lpc,           \* "idle" | "drawn" | "merged" | "raised" | "done"
    \* the dict objects that merge_limits_defaults reads, writes and returns
    defaults,      \* the contents of the config.DEFAULT_LIMITS object
    cdict,         \* the caller's `limits`: None, or the contents of its dict
    mret,          \* the last call: the object returned, the argument before and after
    mcalls,        \* calls of merge_limits_defaults made
    medits,        \* assignments the caller has made to a returned dict
    \* the output of one start(), returned and logged
    captured,      \* the Result as start() has built it
    returned,      \* the Result start() returns
    logged,        \* truncate_result of it
    tpc,           \* "idle" | "built" | "done"
    \* the engine-client cache and the threads that ask it for a client
    cache,         \* _DOCKER_CLIENTS: key -> client, 0 for a missing key
    nclients,      \* key -> number of clients created for it
    cpc,           \* thread -> "idle" | "check" | "create" | "store" | "return" | "done"
    ckey,          \* thread -> client_key
    cclient,       \* thread -> the local `client`, 0 before it is created
    cret,          \* thread -> the client returned, 0 before the return
    ccalls         \* thread -> calls of get_docker_client it has made

engineVars == <<cstate, prog, exitCode, oomKilled, startedAt, finishedAt, inbuf,
                stdinOpen, wire, peer, clog, ncreated>>
pumpVars == <<pc, stdin, stdin_none, stream_data, sock, start_time, timeout,
              read_ready, write_ready, is_io_active, pumpOut, ret>>
sessionVars == <<stdin0, accepted, partial, shutdowns, closes, observed,
                 headExpired, faults, killed, oserr>>
apiVars == <<sandbox, realtime_limit, mode, api, nstarts, last, runOut,
             destroyedFrom>>
codecVars == <<frames, chunks>>
workdirVars == <<wd, wdExit, volume, volFiles, written, wdSandbox, wdRuns>>
dictVars == <<defaults, cdict, mret, mcalls, medits>>
limitsVars == <<limits, merged, ulimits, lpc, dictVars>>
truncVars == <<captured, returned, logged, tpc>>
clientVars == <<cache, nclients, cpc, ckey, cclient, cret, ccalls>>
utilVars == <<limitsVars, truncVars, clientVars>>
vars == <<engineVars, pumpVars, sessionVars, apiVars, codecVars, workdirVars,
          utilVars, now>>

(***************************************************************************)
(* Values the variables have while the part they belong to is not in use.  *)
(***************************************************************************)
NoResult ==
    [exit_code |-> Null, stdout |-> << >>, stderr |-> << >>, duration |-> Null,
     timeout |-> FALSE, oom_killed |-> FALSE]

\* no start() call has ended yet
NoCall ==
    [kind |-> "none", result |-> NoResult, none |-> TRUE, input |-> << >>,
     pump |-> "none", cstate |-> "none", exitCode |-> 0, oomKilled |-> FALSE,
     faults |-> 0, killed |-> FALSE, observed |-> "none", partial |-> FALSE,
     prog |-> "none", startedAt |-> 0, finishedAt |-> 0]

EngineInit ==
    /\ cstate = "none" /\ prog = "none" /\ exitCode = 0 /\ oomKilled = FALSE
    /\ startedAt = 0 /\ finishedAt = 0 /\ inbuf = << >> /\ stdinOpen = FALSE
    /\ wire = << >> /\ peer = "open" /\ clog = << >> /\ ncreated = 0

PumpInit ==
    /\ pc = "idle" /\ stdin = << >> /\ stdin_none = TRUE /\ stream_data = << >>
    /\ sock = "none" /\ start_time = 0 /\ timeout = Null
    /\ read_ready = FALSE /\ write_ready = FALSE /\ is_io_active = FALSE
    /\ pumpOut = "none" /\ ret = << << >>, << >> >>

SessionInit ==
    /\ stdin0 = << >> /\ accepted = << >> /\ partial = FALSE
    /\ shutdowns = << >> /\ closes = 0
    /\ observed = "none" /\ headExpired = FALSE /\ faults = 0 /\ killed = FALSE
    /\ oserr = "none"

ApiInit ==
    /\ sandbox = "none" /\ realtime_limit = Null /\ mode = "none" /\ api = "idle"
    /\ nstarts = 0 /\ last = NoCall /\ runOut = "none" /\ destroyedFrom = "none"

WorkdirInit ==
    /\ wd = "none" /\ wdExit = "none" /\ volume = "absent" /\ volFiles = {}
    /\ written = {} /\ wdSandbox = "none" /\ wdRuns = 0

\* most threads that call get_docker_client at once
MaxThreads == 2
\* most calls of get_docker_client by one thread
MaxCalls == 2
Threads == 1..MaxThreads
\* the retry policies the code asks clients for: (retry_read,
\* retry_status_forcelist) of the default and of docker_communicate
ClientKeys == {"(500,)", "(404, 500)"}

\* config.DEFAULT_LIMITS, as config.py defines it
DEFAULT_LIMITS ==
    [cputime |-> 1, realtime |-> 5, memory |-> 64, processes |-> 0 - 1,
     file_size |-> Null]

\* before any call: no dict passed, none returned
NoMerge == [ref |-> "none", d |-> << >>,
            arg |-> [none |-> TRUE, d |-> << >>],
            after |-> [none |-> TRUE, d |-> << >>]]

DictsInit ==
    /\ defaults = DEFAULT_LIMITS
    /\ cdict = [none |-> TRUE, d |-> << >>]
    /\ mret = NoMerge /\ mcalls = 0 /\ medits = 0

LimitsInit ==
    /\ limits = [none |-> TRUE, d |-> << >>]
    /\ merged = [raised |-> FALSE, d |-> << >>]
    /\ ulimits = [none |-> TRUE, list |-> << >>] /\ lpc = "idle"
    /\ DictsInit

TruncInit ==
    /\ captured = NoResult /\ returned = NoResult /\ logged = NoResult
    /\ tpc = "idle"

ClientsInit ==
    /\ cache = [k \in ClientKeys |-> 0]
    /\ nclients = [k \in ClientKeys |-> 0]
    /\ cpc = [t \in Threads |-> "idle"]
    /\ ckey = [t \in Threads |-> "(500,)"]
    /\ cclient = [t \in Threads |-> 0]
    /\ cret = [t \in Threads |-> 0]
    /\ ccalls = [t \in Threads |-> 0]

UtilInit == LimitsInit /\ TruncInit /\ ClientsInit

(***************************************************************************)
(* The wire format, as the engine writes it.                               *)
(***************************************************************************)
\* the 32-bit big-endian encoding of n
BigEndian32(n) ==
    << (n \div 16777216) % 256, (n \div 65536) % 256, (n \div 256) % 256, n % 256 >>

\* one frame: stream id, three reserved bytes, the length, the payload
EncodeFrame(id, pad, payload) ==
    <<id, pad, pad, pad>> \o BigEndian32(Len(payload)) \o payload

RECURSIVE EncodeFrames(_)
EncodeFrames(fs) ==
    IF fs = << >> THEN << >>
    ELSE EncodeFrame(Head(fs).id, Head(fs).pad, Head(fs).payload)
             \o EncodeFrames(Tail(fs))

\* the payloads of the frames of stream `id`, in order
RECURSIVE PayloadsOf(_, _)
PayloadsOf(fs, id) ==
    IF fs = << >> THEN << >>
    ELSE (IF Head(fs).id = id THEN Head(fs).payload ELSE << >>)
             \o PayloadsOf(Tail(fs), id)

(***************************************************************************)
(* Reading from the socket.                                                *)
(***************************************************************************)
\* _socket_read(sock, n): at most n of the bytes that have arrived
SocketRead(avail) ==
    SubSeq(avail, 1, IF Len(avail) < MaxRead THEN Len(avail) ELSE MaxRead)

\* the sizes in which the network may hand `avail` bytes to one read
ReadSizes(avail) == 1..Len(SocketRead(avail))

\* a pump that keeps only the latest chunk
AccumulateLast(buffer, data) == data

\* stream_data += data
Accumulate(buffer, data) == buffer \o data

(***************************************************************************)
(* The codec on its own: a drawn stream of valid frames reaches the pump   *)
(* in reads of any sizes, is accumulated and decoded at end of stream.     *)
(***************************************************************************)
\* payload bytes include 1 and 2, which look like stream ids
PayloadData == <<1, 2, 65, 66, 67, 68>>
Payloads == {SubSeq(PayloadData, 1, n) : n \in 0..MaxPayload}
StreamIds == {0, 1, 2}
Frames == [id : StreamIds, pad : {0, 1}, payload : Payloads]
FrameStreams == UNION {[1..n -> Frames] : n \in 0..MaxFrames}

InitCodec ==
    /\ frames \in FrameStreams
    /\ chunks = 0
    /\ cstate = "none" /\ prog = "none" /\ exitCode = 0 /\ oomKilled = FALSE
    /\ startedAt = 0 /\ finishedAt = 0 /\ inbuf = << >> /\ stdinOpen = FALSE
    /\ wire = EncodeFrames(frames)
    /\ peer = "closed" /\ clog = << >> /\ ncreated = 0
    /\ pc = "codec" /\ stdin = << >> /\ stdin_none = TRUE /\ stream_data = << >>
    /\ sock = "open" /\ start_time = 0 /\ timeout = Null
    /\ read_ready = FALSE /\ write_ready = FALSE /\ is_io_active = FALSE
    /\ pumpOut = "none" /\ ret = << << >>, << >> >>
    /\ SessionInit /\ ApiInit /\ WorkdirInit /\ UtilInit /\ now = 0

\* data = _socket_read(sock); stream_data += data
CodecRead ==
    /\ pc = "codec"
    /\ wire # << >>
    /\ \E k \in ReadSizes(wire) :
        /\ stream_data' = Accumulate(stream_data, SubSeq(wire, 1, k))
        /\ wire' = SubSeq(wire, k + 1, Len(wire))
    /\ chunks' = chunks + 1
    /\ UNCHANGED <<cstate, prog, exitCode, oomKilled, startedAt, finishedAt, inbuf,
                   stdinOpen, peer, clog, ncreated>>
    /\ UNCHANGED <<pc, stdin, stdin_none, sock, start_time, timeout, read_ready,
                   write_ready, is_io_active, pumpOut, ret>>
    /\ UNCHANGED <<sessionVars, apiVars, frames, workdirVars, utilVars, now>>

\* end of stream: return demultiplex_docker_stream(stream_data)
CodecDecode ==
    /\ pc = "codec"
    /\ wire = << >>
    /\ ret' = demultiplex_docker_stream(stream_data)
    /\ pc' = "codec_done"
    /\ UNCHANGED <<engineVars, sessionVars, apiVars, codecVars, workdirVars, utilVars, now>>
    /\ UNCHANGED <<stdin, stdin_none, stream_data, sock, start_time, timeout,
                   read_ready, write_ready, is_io_active, pumpOut>>

\* the stream ends early (connection reset, broken pipe): the loop breaks and
\* return demultiplex_docker_stream(stream_data) decodes what has arrived
CodecCut ==
    /\ pc = "codec"
    /\ wire # << >>
    /\ ret' = demultiplex_docker_stream(stream_data)
    /\ pc' = "codec_cut"
    /\ UNCHANGED <<engineVars, sessionVars, apiVars, codecVars, workdirVars, utilVars, now>>
    /\ UNCHANGED <<stdin, stdin_none, stream_data, sock, start_time, timeout,
                   read_ready, write_ready, is_io_active, pumpOut>>

NextCodec == CodecRead \/ CodecDecode \/ CodecCut

SpecCodec == InitCodec /\ [][NextCodec]_vars

\* C5: for every stream of valid frames, however it was split into reads, the
\* decoder returns as stdout exactly the payloads of the frames of stream 1, in
\* order, and as stderr exactly those of stream 2; payloads of frames with any
\* other stream id are in neither.
C5_DemuxReconstructs ==
    pc = "codec_done" =>
        /\ ret[1] = PayloadsOf(frames, 1)
        /\ ret[2] = PayloadsOf(frames, 2)

\* a decoded stream of a dropped frame and a stdout frame, both with payload,
\* that arrived in several reads
C5_Witness ==
    /\ pc = "codec_done"
    /\ chunks >= 3
    /\ \E i, j \in 1..Len(frames) :
        /\ frames[i].id = 0 /\ frames[i].payload # << >>
        /\ frames[j].id = 1 /\ frames[j].payload # << >>
    /\ ret[1] # << >>

(***************************************************************************)
(* Bounds of the sandbox model.                                            *)
(***************************************************************************)
\* longest input passed to start()
MaxStdin == 2
\* most start() calls on one sandbox
MaxStarts == 2
\* the clock stops advancing this long after a session's start_time
MaxElapsed == 1

InputData == <<65, 66, 67, 68>>
\* the `stdin` arguments: None, b"" and non-empty byte strings
Inputs ==
    {[none |-> TRUE, data |-> << >>]}
        \cup {[none |-> FALSE, data |-> SubSeq(InputData, 1, n)] : n \in 0..MaxStdin}
\* the realtime limits a sandbox is created with: none, or one second
RealtimeLimits == {Null, 1}
Programs == {"cat", "exit", "sleep"}

(***************************************************************************)
(* The engine and the container's process.                                 *)
(***************************************************************************)
\* the engine's timestamp at clock value t. 0 is its zero time (0001-01-01),
\* the FinishedAt of a container that never finished; the FinishedAt of an
\* earlier run is kept when the container is started again, and is before
\* the new StartedAt
Stamp(t) == t + 2

\* the engine sends `bytes` down the attach stream, if one is attached
Send(bytes) == IF sock = "open" /\ peer = "open" THEN wire \o bytes ELSE wire

\* cat: echo what has arrived on stdin as one stdout frame
CatEcho ==
    /\ cstate = "running" /\ prog = "cat" /\ inbuf # << >>
    /\ wire' = Send(EncodeFrame(1, 0, inbuf))
    /\ clog' = clog \o inbuf
    /\ inbuf' = << >>
    /\ UNCHANGED <<cstate, prog, exitCode, oomKilled, startedAt, finishedAt,
                   stdinOpen, peer, ncreated>>
    /\ UNCHANGED <<pumpVars, sessionVars, apiVars, codecVars, workdirVars, utilVars, now>>

\* the process ends: the engine records it and closes the attach stream
Exited(code, oom) ==
    /\ cstate' = "exited" /\ exitCode' = code /\ oomKilled' = oom
    /\ finishedAt' = Stamp(now)
    /\ peer' = IF peer = "open" THEN "closed" ELSE peer
    /\ UNCHANGED <<prog, startedAt, inbuf, stdinOpen, wire, clog, ncreated>>

\* the process exits by itself: cat at end of input, true/false at once
ProgExit ==
    /\ cstate = "running"
    /\ \/ prog = "cat" /\ inbuf = << >> /\ ~stdinOpen /\ Exited(0, FALSE)
       \/ prog = "exit" /\ \E code \in {0, 1} : Exited(code, FALSE)
    /\ UNCHANGED <<pumpVars, sessionVars, apiVars, codecVars, workdirVars, utilVars, now>>

\* what ends a long-running process (here "sleep"): the OOM killer's SIGKILL,
\* the CPU ulimit's SIGXCPU and SIGKILL, a crash (SIGSEGV)
Kills ==
    {[code |-> 137, oom |-> TRUE], [code |-> 137, oom |-> FALSE],
     [code |-> 152, oom |-> FALSE], [code |-> 139, oom |-> FALSE]}

KernelKill ==
    /\ cstate = "running" /\ prog = "sleep"
    /\ api = "start"
    /\ \E k \in Kills : Exited(k.code, k.oom)
    /\ killed' = TRUE
    /\ UNCHANGED <<oserr, stdin0, accepted, partial, shutdowns, closes, observed,
                   headExpired, faults>>
    /\ UNCHANGED <<pumpVars, apiVars, codecVars, workdirVars, utilVars, now>>

\* the connection is reset by the peer
NetReset ==
    /\ sock = "open" /\ peer = "open"
    /\ pc \in {"select", "read", "write"}
    /\ peer' = "reset" /\ wire' = << >>
    /\ UNCHANGED <<cstate, prog, exitCode, oomKilled, startedAt, finishedAt, inbuf,
                   stdinOpen, clog, ncreated>>
    /\ UNCHANGED <<pumpVars, sessionVars, apiVars, codecVars, workdirVars, utilVars, now>>

\* time passes while the pump is blocked in select() or sleep()
Tick ==
    /\ pc \in {"select", "sleep"}
    /\ now - start_time < MaxElapsed
    /\ now' = now + 1
    /\ UNCHANGED <<engineVars, pumpVars, sessionVars, apiVars, codecVars, workdirVars, utilVars>>

(***************************************************************************)
(* docker_communicate.                                                     *)
(***************************************************************************)
ERRNO_RECOVERABLE == {"EINTR", "EDEADLK", "EWOULDBLOCK"}

\* attach parameters that ask the engine to replay the container's log
AttachParamsWithLogs ==
    [stdin |-> 1, stdout |-> 1, stderr |-> 1, stream |-> 1, logs |-> 1]

\* `params` of the attach call
AttachParams ==
    [stdin |-> 1, stdout |-> 1, stderr |-> 1, stream |-> 1, logs |-> 0]

\* a test for absent input that lets b"" through
NoInputNoneOnly == stdin_none

\* `not stdin` (line 206): None or b""
NoInput == stdin_none \/ stdin = << >>

\* `stdin` as a condition in the loop
InputRemains == ~stdin_none /\ stdin # << >>

\* what the session remembers of a half-close: where it was called and how
\* much input was unsent
ShutdownAt(where, rest) == [pc |-> where, unsent |-> Len(rest)]

\* an exception other than TimeoutError leaves docker_communicate
Raise ==
    /\ pumpOut' = "error" /\ pc' = "done"
    /\ faults' = faults + 1

\* sock = docker_client.api.attach_socket(container.id, params=params)
PumpAttach ==
    /\ pc = "attach"
    /\ \/ /\ cstate \in {"created", "running", "exited"}
          /\ sock' = "open" /\ pc' = "shut0"
          /\ wire' = IF AttachParams.logs = 1 /\ clog # << >>
                   THEN EncodeFrame(1, 0, clog) ELSE << >>
          /\ peer' = "open" /\ stdinOpen' = TRUE /\ inbuf' = << >>
          /\ UNCHANGED <<pumpOut, faults>>
       \/ /\ Raise
          /\ UNCHANGED <<sock, wire, peer, stdinOpen, inbuf>>
    /\ UNCHANGED <<cstate, prog, exitCode, oomKilled, startedAt, finishedAt, clog,
                   ncreated>>
    /\ UNCHANGED <<stdin, stdin_none, stream_data, start_time, timeout, read_ready,
                   write_ready, is_io_active, ret>>
    /\ UNCHANGED <<oserr, stdin0, accepted, partial, shutdowns, closes, observed,
                   headExpired, killed>>
    /\ UNCHANGED <<apiVars, codecVars, workdirVars, utilVars, now>>

\* if not stdin: sock.shutdown(socket.SHUT_WR)
PumpShutdownNoInput ==
    /\ pc = "shut0"
    /\ \/ /\ NoInput
          /\ shutdowns' = Append(shutdowns, ShutdownAt(pc, stdin))
          /\ stdinOpen' = FALSE /\ pc' = "start"
          /\ UNCHANGED <<pumpOut, faults>>
       \/ /\ NoInput
          /\ Raise
          /\ UNCHANGED <<shutdowns, stdinOpen>>
       \/ /\ ~NoInput
          /\ pc' = "start"
          /\ UNCHANGED <<pumpOut, faults, shutdowns, stdinOpen>>
    /\ UNCHANGED <<cstate, prog, exitCode, oomKilled, startedAt, finishedAt, inbuf,
                   wire, peer, clog, ncreated>>
    /\ UNCHANGED <<stdin, stdin_none, stream_data, sock, start_time, timeout,
                   read_ready, write_ready, is_io_active, ret>>
    /\ UNCHANGED <<oserr, stdin0, accepted, partial, closes, observed, headExpired, killed>>
    /\ UNCHANGED <<apiVars, codecVars, workdirVars, utilVars, now>>

\* container.start(); stream_data = b""; start_time = time.monotonic()
PumpStartContainer ==
    /\ pc = "start"
    /\ \/ /\ cstate \in {"created", "exited"}
          /\ cstate' = "running" /\ startedAt' = Stamp(now)
          /\ finishedAt' = IF finishedAt = 0 THEN 0 ELSE Stamp(now) - 1
          /\ exitCode' = 0 /\ oomKilled' = FALSE
          /\ stream_data' = << >> /\ start_time' = now /\ pc' = "head"
          /\ UNCHANGED <<pumpOut, faults>>
       \/ /\ cstate = "running"
          /\ stream_data' = << >> /\ start_time' = now /\ pc' = "head"
          /\ UNCHANGED <<cstate, startedAt, finishedAt, exitCode, oomKilled,
                         pumpOut, faults>>
       \/ /\ Raise
          /\ UNCHANGED <<cstate, startedAt, finishedAt, exitCode, oomKilled,
                         stream_data, start_time>>
    /\ UNCHANGED <<prog, inbuf, stdinOpen, wire, peer, clog, ncreated>>
    /\ UNCHANGED <<stdin, stdin_none, sock, timeout, read_ready, write_ready,
                   is_io_active, ret>>
    /\ UNCHANGED <<oserr, stdin0, accepted, partial, shutdowns, closes, observed,
                   headExpired, killed>>
    /\ UNCHANGED <<apiVars, codecVars, workdirVars, utilVars, now>>

\* a loop head that does not look at the deadline (`while True`)
PumpLoopHeadUnbounded ==
    /\ pc = "head"
    /\ pc' = "select" /\ UNCHANGED headExpired
    /\ UNCHANGED <<stdin, stdin_none, stream_data, sock, start_time, timeout,
                   read_ready, write_ready, is_io_active, pumpOut, ret>>
    /\ oserr' = "none"
    /\ UNCHANGED <<stdin0, accepted, partial, shutdowns, closes, observed, faults,
                   killed>>
    /\ UNCHANGED <<engineVars, apiVars, codecVars, workdirVars, utilVars, now>>

\* while timeout is None or time.monotonic() - start_time < timeout
PumpLoopHead ==
    /\ pc = "head"
    /\ IF timeout = Null \/ now - start_time < timeout
       THEN pc' = "select" /\ UNCHANGED headExpired
       ELSE pc' = "expired" /\ headExpired' = TRUE
    /\ UNCHANGED <<stdin, stdin_none, stream_data, sock, start_time, timeout,
                   read_ready, write_ready, is_io_active, pumpOut, ret>>
    /\ oserr' = "none"
    /\ UNCHANGED <<stdin0, accepted, partial, shutdowns, closes, observed, faults,
                   killed>>
    /\ UNCHANGED <<engineVars, apiVars, codecVars, workdirVars, utilVars, now>>

\* read_ready, write_ready, _ = select.select([sock], [sock], [], 1)
\* is_io_active = bool(read_ready or (write_ready and stdin))
PumpSelect ==
    /\ pc = "select"
    /\ \/ /\ read_ready' = (wire # << >> \/ peer # "open")
          /\ write_ready' \in BOOLEAN
          /\ is_io_active' = (read_ready' \/ (write_ready' /\ InputRemains))
          /\ pc' = "read"
          /\ UNCHANGED <<pumpOut, faults>>
       \/ /\ Raise
          /\ UNCHANGED <<read_ready, write_ready, is_io_active>>
    /\ UNCHANGED <<stdin, stdin_none, stream_data, sock, start_time, timeout, ret>>
    /\ UNCHANGED <<oserr, stdin0, accepted, partial, shutdowns, closes, observed,
                   headExpired, killed>>
    /\ UNCHANGED <<engineVars, apiVars, codecVars, workdirVars, utilVars, now>>

\* if read_ready: data = _socket_read(sock) ... stream_data += data
PumpRead ==
    /\ pc = "read"
    /\ \/ /\ ~read_ready
          /\ pc' = "write"
          /\ UNCHANGED <<stream_data, wire, observed, pumpOut, faults>>
       \/ /\ read_ready /\ wire # << >>
          /\ stream_data' = Accumulate(stream_data, SocketRead(wire))
          /\ wire' = SubSeq(wire, Len(SocketRead(wire)) + 1, Len(wire))
          /\ pc' = "write"
          /\ UNCHANGED <<observed, pumpOut, faults>>
       \/ /\ read_ready /\ wire = << >> /\ peer = "closed"
          /\ observed' = "eof" /\ pc' = "break"
          /\ UNCHANGED <<stream_data, wire, pumpOut, faults>>
       \/ /\ read_ready /\ wire = << >> /\ peer = "reset"
          /\ observed' = "reset" /\ pc' = "break"
          /\ UNCHANGED <<stream_data, wire, pumpOut, faults>>
       \/ /\ read_ready
          /\ Raise
          /\ UNCHANGED <<stream_data, wire, observed>>
    /\ UNCHANGED <<cstate, prog, exitCode, oomKilled, startedAt, finishedAt, inbuf,
                   stdinOpen, peer, clog, ncreated>>
    /\ UNCHANGED <<stdin, stdin_none, sock, start_time, timeout, read_ready,
                   write_ready, is_io_active, ret>>
    /\ UNCHANGED <<oserr, stdin0, accepted, partial, shutdowns, closes, headExpired,
                   killed>>
    /\ UNCHANGED <<apiVars, codecVars, workdirVars, utilVars, now>>

\* what os.write(sock.fileno(), data) may do: accept 1..len(data) bytes, or fail
OsWrites(data) ==
    {[errno |-> "none", n |-> k] : k \in 1..Len(data)}
        \cup {[errno |-> e, n |-> 0] : e \in ERRNO_RECOVERABLE \cup {"EIO"}}
        \cup (IF peer = "open" THEN {} ELSE {[errno |-> "EPIPE", n |-> 0]})

\* a _socket_write that reports one byte written on a recoverable errno
SocketWriteCountsRecoveredByte(os) ==
    IF os.errno = "none"
    THEN [raise |-> "none", written |-> os.n]
    ELSE IF os.errno \in ERRNO_RECOVERABLE
         THEN [raise |-> "none", written |-> 1]
         ELSE [raise |-> os.errno, written |-> 0]

\* a _socket_write that lets every OSError through
SocketWriteNoRecover(os) ==
    IF os.errno = "none"
    THEN [raise |-> "none", written |-> os.n]
    ELSE [raise |-> os.errno, written |-> 0]

\* _socket_write: the bytes written, 0 on a recoverable errno, else the error
SocketWrite(os) ==
    IF os.errno = "none"
    THEN [raise |-> "none", written |-> os.n]
    ELSE IF os.errno \in ERRNO_RECOVERABLE
         THEN [raise |-> "none", written |-> 0]
         ELSE [raise |-> os.errno, written |-> 0]

\* the position after the write part of an iteration: `if not is_io_active`
AfterWrite == IF is_io_active THEN "head" ELSE "sleep"

\* the locals of an iteration are dead once it is over: the next select()
\* assigns them again
EndIteration ==
    read_ready' = FALSE /\ write_ready' = FALSE /\ is_io_active' = FALSE

\* the bytes reach the stdin of a running process that reads it
Deliver(bytes) ==
    IF cstate = "running" /\ prog = "cat" /\ stdinOpen /\ peer = "open"
    THEN inbuf \o bytes ELSE inbuf

\* if write_ready and stdin: written = _socket_write(sock, stdin) ...
\* (os.n bytes are accepted by the socket, `written` is what the code is told)
\*     stdin = stdin[written:]; if not stdin: sock.shutdown(socket.SHUT_WR)
PumpWrite ==
    /\ pc = "write"
    /\ \/ /\ ~(write_ready /\ InputRemains)
          /\ pc' = AfterWrite
          /\ oserr' = "none"
          /\ UNCHANGED <<stdin, inbuf, stdinOpen, accepted, partial, shutdowns,
                         observed, pumpOut, faults>>
       \/ /\ write_ready /\ InputRemains
          /\ \E os \in OsWrites(stdin) :
              LET r == SocketWrite(os)
                  rest == Slice(stdin, r.written, Len(stdin))
              IN  \/ /\ r.raise = "EPIPE"
                     /\ oserr' = os.errno
                     /\ observed' = "epipe" /\ pc' = "break"
                     /\ UNCHANGED <<stdin, inbuf, stdinOpen, accepted, partial,
                                    shutdowns, pumpOut, faults>>
                  \/ /\ r.raise \notin {"none", "EPIPE"}
                     /\ oserr' = os.errno
                     /\ Raise
                     /\ UNCHANGED <<stdin, inbuf, stdinOpen, accepted, partial,
                                    shutdowns, observed>>
                  \/ /\ r.raise = "none" /\ rest # << >>
                     /\ oserr' = os.errno
                     /\ stdin' = rest
                     /\ accepted' = accepted \o SubSeq(stdin, 1, os.n)
                     /\ inbuf' = Deliver(SubSeq(stdin, 1, os.n))
                     /\ partial' = (partial \/ r.written > 0)
                     /\ pc' = AfterWrite
                     /\ UNCHANGED <<stdinOpen, shutdowns, observed, pumpOut, faults>>
                  \/ /\ r.raise = "none" /\ rest = << >>
                     /\ oserr' = os.errno
                     /\ stdin' = rest
                     /\ accepted' = accepted \o SubSeq(stdin, 1, os.n)
                     /\ inbuf' = Deliver(SubSeq(stdin, 1, os.n))
                     /\ shutdowns' = Append(shutdowns, ShutdownAt(pc, rest))
                     /\ stdinOpen' = FALSE
                     /\ pc' = AfterWrite
                     /\ UNCHANGED <<partial, observed, pumpOut, faults>>
                  \/ /\ r.raise = "none" /\ rest = << >>
                     /\ oserr' = os.errno
                     /\ stdin' = rest
                     /\ accepted' = accepted \o SubSeq(stdin, 1, os.n)
                     /\ inbuf' = Deliver(SubSeq(stdin, 1, os.n))
                     /\ Raise
                     /\ UNCHANGED <<stdinOpen, partial, shutdowns, observed>>
    /\ UNCHANGED <<cstate, prog, exitCode, oomKilled, startedAt, finishedAt, wire,
                   peer, clog, ncreated>>
    /\ EndIteration
    /\ UNCHANGED <<stdin_none, stream_data, sock, start_time, timeout, ret>>
    /\ UNCHANGED <<stdin0, closes, headExpired, killed>>
    /\ UNCHANGED <<apiVars, codecVars, workdirVars, utilVars, now>>

\* if not is_io_active: time.sleep(0.05)
PumpSleep ==
    /\ pc = "sleep"
    /\ pc' = "head"
    /\ UNCHANGED <<stdin, stdin_none, stream_data, sock, start_time, timeout,
                   read_ready, write_ready, is_io_active, pumpOut, ret>>
    /\ UNCHANGED <<engineVars, sessionVars, apiVars, codecVars, workdirVars, utilVars, now>>

\* sock.close(): the engine sees the client gone and closes the container's stdin
SockClose ==
    /\ sock' = "closed" /\ closes' = closes + 1
    /\ stdinOpen' = FALSE /\ wire' = << >> /\ peer' = "closed"

\* a pump that stops the container when the deadline has elapsed
PumpExpiredStops ==
    /\ pc = "expired"
    /\ SockClose
    /\ pumpOut' = "timeout" /\ pc' = "done"
    /\ cstate' = "exited" /\ exitCode' = 137 /\ finishedAt' = Stamp(now)
    /\ UNCHANGED <<prog, oomKilled, startedAt, inbuf, clog, ncreated>>
    /\ UNCHANGED <<stdin, stdin_none, stream_data, start_time, timeout, read_ready,
                   write_ready, is_io_active, ret>>
    /\ UNCHANGED <<oserr, stdin0, accepted, partial, shutdowns, observed, headExpired,
                   faults, killed>>
    /\ UNCHANGED <<apiVars, codecVars, workdirVars, utilVars, now>>

\* the while's else: sock.close(); raise TimeoutError(msg)
PumpExpired ==
    /\ pc = "expired"
    /\ SockClose
    /\ pumpOut' = "timeout" /\ pc' = "done"
    /\ UNCHANGED <<cstate, prog, exitCode, oomKilled, startedAt, finishedAt, inbuf,
                   clog, ncreated>>
    /\ UNCHANGED <<stdin, stdin_none, stream_data, start_time, timeout, read_ready,
                   write_ready, is_io_active, ret>>
    /\ UNCHANGED <<oserr, stdin0, accepted, partial, shutdowns, observed, headExpired,
                   faults, killed>>
    /\ UNCHANGED <<apiVars, codecVars, workdirVars, utilVars, now>>

\* a pump that checks the deadline once more after the loop was left by break
PumpReturnChecksDeadline ==
    /\ pc = "break"
    /\ SockClose
    /\ IF timeout # Null /\ now - start_time >= timeout
       THEN pumpOut' = "timeout" /\ UNCHANGED ret
       ELSE pumpOut' = "returned" /\ ret' = demultiplex_docker_stream(stream_data)
    /\ pc' = "done"
    /\ UNCHANGED <<cstate, prog, exitCode, oomKilled, startedAt, finishedAt, inbuf,
                   clog, ncreated>>
    /\ UNCHANGED <<stdin, stdin_none, stream_data, start_time, timeout, read_ready,
                   write_ready, is_io_active>>
    /\ UNCHANGED <<oserr, stdin0, accepted, partial, shutdowns, observed, headExpired,
                   faults, killed>>
    /\ UNCHANGED <<apiVars, codecVars, workdirVars, utilVars, now>>

\* after a break: sock.close(); return demultiplex_docker_stream(stream_data)
PumpReturn ==
    /\ pc = "break"
    /\ SockClose
    /\ ret' = demultiplex_docker_stream(stream_data)
    /\ pumpOut' = "returned" /\ pc' = "done"
    /\ UNCHANGED <<cstate, prog, exitCode, oomKilled, startedAt, finishedAt, inbuf,
                   clog, ncreated>>
    /\ UNCHANGED <<stdin, stdin_none, stream_data, start_time, timeout, read_ready,
                   write_ready, is_io_active>>
    /\ UNCHANGED <<oserr, stdin0, accepted, partial, shutdowns, observed, headExpired,
                   faults, killed>>
    /\ UNCHANGED <<apiVars, codecVars, workdirVars, utilVars, now>>

Pump ==
    \/ PumpAttach \/ PumpShutdownNoInput \/ PumpStartContainer \/ PumpLoopHead
    \/ PumpSelect \/ PumpRead \/ PumpWrite \/ PumpSleep \/ PumpExpired \/ PumpReturn

(***************************************************************************)
(* The outcome interpreter.                                                *)
(***************************************************************************)
SIGKILL == 9
SIGXCPU == 24

\* a classification that knows SIGKILL only
is_killed_by_sigkill_only(status) == status - 128 \in {SIGKILL}

is_killed_by_sigkill_or_sigxcpu(status) == status - 128 \in {SIGKILL, SIGXCPU}

\* an inspection that reports the difference of the timestamps as it is
inspect_without_clamp(started_at, finished_at, exit_code, oom_killed) ==
    [exit_code |-> exit_code,
     duration |-> finished_at - started_at,
     oom_killed |-> oom_killed]

\* an inspection that reads the exit code as `ExitCode or None`
inspect_exit_code_or_none(started_at, finished_at, exit_code, oom_killed) ==
    LET duration_seconds == finished_at - started_at
    IN  [exit_code |-> IF exit_code = 0 THEN Null ELSE exit_code,
         duration |-> IF duration_seconds < 0 THEN 0 - 1 ELSE duration_seconds,
         oom_killed |-> oom_killed]

\* inspect_exited_container_state, on the attributes the reload fetched
inspect_exited_container_state(started_at, finished_at, exit_code, oom_killed) ==
    LET duration_seconds == finished_at - started_at
    IN  [exit_code |-> exit_code,
         duration |-> IF duration_seconds < 0 THEN 0 - 1 ELSE duration_seconds,
         oom_killed |-> oom_killed]

(***************************************************************************)
(* The sandbox lifecycle: create, start, destroy, run.                     *)
(***************************************************************************)
\* create(profile, command, limits): a created container and its Sandbox;
\* `m` says who owns it: the caller (who calls destroy() or leaves the
\* `with create(...)` scope), or run()
Create(m, p, rl) ==
    /\ mode = "none" /\ sandbox = "none"
    /\ cstate' = "created" /\ prog' = p /\ ncreated' = ncreated + 1
    /\ sandbox' = "created" /\ realtime_limit' = rl /\ mode' = m
    /\ UNCHANGED <<exitCode, oomKilled, startedAt, finishedAt, inbuf, stdinOpen,
                   wire, peer, clog>>
    /\ UNCHANGED <<api, nstarts, last, runOut, destroyedFrom>>
    /\ UNCHANGED <<pumpVars, sessionVars, codecVars, workdirVars, utilVars, now>>

\* start(sandbox, stdin): enters docker_communicate with the sandbox's
\* realtime limit as the deadline
StartCall(input) ==
    /\ api = "idle"
    /\ sandbox \in {"created", "exited"}
    /\ nstarts < MaxStarts
    /\ mode = "run" => nstarts = 0
    /\ nstarts' = nstarts + 1 /\ last' = NoCall
    /\ api' = "start" /\ sandbox' = "running"
    /\ pc' = "attach"
    /\ stdin' = input.data /\ stdin_none' = input.none
    /\ timeout' = realtime_limit
    /\ pumpOut' = "none" /\ ret' = << << >>, << >> >>
    /\ stream_data' = << >> /\ sock' = "none"
    /\ read_ready' = FALSE /\ write_ready' = FALSE /\ is_io_active' = FALSE
    /\ stdin0' = input.data /\ accepted' = << >> /\ partial' = FALSE
    /\ shutdowns' = << >>
    /\ closes' = 0 /\ observed' = "none" /\ headExpired' = FALSE
    /\ faults' = 0 /\ killed' = FALSE /\ oserr' = "none"
    /\ now' = 0
    /\ UNCHANGED <<realtime_limit, mode, runOut, destroyedFrom, start_time>>
    /\ UNCHANGED <<engineVars, codecVars, workdirVars, utilVars>>

\* docker_communicate has returned or raised: its locals are gone
Forget ==
    /\ pc' = "idle" /\ stdin' = << >> /\ stdin_none' = TRUE /\ stream_data' = << >>
    /\ sock' = "none" /\ start_time' = 0 /\ timeout' = Null
    /\ read_ready' = FALSE /\ write_ready' = FALSE /\ is_io_active' = FALSE
    /\ pumpOut' = "none" /\ ret' = << << >>, << >> >>
    /\ stdin0' = << >> /\ accepted' = << >> /\ partial' = FALSE
    /\ shutdowns' = << >>
    /\ closes' = 0 /\ observed' = "none" /\ headExpired' = FALSE /\ killed' = FALSE
    /\ oserr' = "none"

\* what start() remembers of the session it has finished
Finished(kind, result) ==
    [kind |-> kind, result |-> result, none |-> stdin_none, input |-> stdin0,
     pump |-> pumpOut, cstate |-> cstate, exitCode |-> exitCode,
     oomKilled |-> oomKilled, faults |-> faults, killed |-> killed,
     observed |-> observed, partial |-> partial, prog |-> prog,
     startedAt |-> startedAt, finishedAt |-> finishedAt]

\* start() when the pump has failed with TimeoutError
TimeoutResult ==
    [NoResult EXCEPT !.timeout = TRUE,
                     !.exit_code = IF cstate = "exited" THEN exitCode ELSE Null]

\* start() when the pump has returned the decoded streams
ExitedResult ==
    LET state == inspect_exited_container_state(startedAt, finishedAt, exitCode,
                                                oomKilled)
    IN  [exit_code |-> state.exit_code, stdout |-> ret[1], stderr |-> ret[2],
         duration |-> state.duration,
         timeout |-> (is_killed_by_sigkill_or_sigxcpu(state.exit_code)
                        /\ ~state.oom_killed),
         oom_killed |-> state.oom_killed]

\* the rest of start(): the Result, or the engine error
StartReturn ==
    /\ api = "start" /\ pc = "done"
    /\ \/ /\ pumpOut = "timeout"
          /\ last' = Finished("result", TimeoutResult)
          /\ sandbox' = IF cstate = "exited" THEN "exited" ELSE "running"
       \/ /\ pumpOut = "returned"
          /\ last' = Finished("result", ExitedResult)
          /\ sandbox' = "exited"
       \/ /\ pumpOut = "returned"
          /\ last' = [Finished("raised", NoResult) EXCEPT !.faults = faults + 1]
          /\ UNCHANGED sandbox
       \/ /\ pumpOut = "error"
          /\ last' = Finished("raised", NoResult)
          /\ UNCHANGED sandbox
    /\ api' = "idle" /\ faults' = 0
    /\ Forget
    /\ UNCHANGED <<realtime_limit, mode, nstarts, runOut, destroyedFrom>>
    /\ UNCHANGED <<engineVars, codecVars, workdirVars, utilVars, now>>

\* a removal without force, which the engine refuses for a running container
RemoveUnlessRunning ==
    /\ cstate' = IF cstate = "running" THEN cstate ELSE "removed"
    /\ destroyedFrom' = cstate
    /\ UNCHANGED <<prog, exitCode, oomKilled, startedAt, finishedAt, inbuf,
                   stdinOpen, wire, peer, clog, ncreated>>

\* container.remove(v=True, force=True): the container is gone, whatever
\* state it was in
Remove ==
    /\ cstate' = "removed"
    /\ destroyedFrom' = cstate
    /\ UNCHANGED <<prog, exitCode, oomKilled, startedAt, finishedAt, inbuf,
                   stdinOpen, wire, peer, clog, ncreated>>

\* destroy(sandbox), called by the owner or on leaving a `with create(...)`
\* scope, normally or by an exception
Destroy ==
    /\ mode = "scope" /\ api = "idle"
    /\ sandbox \in {"created", "running", "exited"}
    /\ Remove
    /\ sandbox' = "destroyed"
    /\ UNCHANGED <<realtime_limit, mode, api, nstarts, last, runOut>>
    /\ UNCHANGED <<pumpVars, sessionVars, codecVars, workdirVars, utilVars, now>>

\* a run() that destroys the sandbox only when start() has returned
RunExitLeaksOnError ==
    /\ mode = "run" /\ api = "idle" /\ nstarts > 0
    /\ sandbox \in {"created", "running", "exited"}
    /\ IF last.kind = "raised"
       THEN /\ runOut' = "raised"
            /\ UNCHANGED <<engineVars, destroyedFrom>>
       ELSE /\ runOut' = "returned"
            /\ Remove
    /\ sandbox' = "destroyed"
    /\ UNCHANGED <<realtime_limit, mode, api, nstarts, last>>
    /\ UNCHANGED <<pumpVars, sessionVars, codecVars, workdirVars, utilVars, now>>

\* the end of run(): `with create(...) as sandbox: return start(sandbox, ...)`
\* leaves the scope, by the return or by the exception of start()
RunExit ==
    /\ mode = "run" /\ api = "idle" /\ nstarts > 0
    /\ sandbox \in {"created", "running", "exited"}
    /\ Remove
    /\ sandbox' = "destroyed"
    /\ runOut' = IF last.kind = "raised" THEN "raised" ELSE "returned"
    /\ UNCHANGED <<realtime_limit, mode, api, nstarts, last>>
    /\ UNCHANGED <<pumpVars, sessionVars, codecVars, workdirVars, utilVars, now>>

(***************************************************************************)
(* The sandbox and its container, from before create() to after destroy(). *)
(***************************************************************************)
Init ==
    /\ EngineInit /\ PumpInit /\ SessionInit /\ ApiInit
    /\ frames = << >> /\ chunks = 0 /\ now = 0
    /\ WorkdirInit /\ UtilInit

Next ==
    \/ \E m \in {"scope", "run"}, p \in Programs, rl \in RealtimeLimits :
          Create(m, p, rl)
    \/ \E input \in Inputs : StartCall(input)
    \/ Pump
    \/ StartReturn
    \/ Destroy
    \/ RunExit
    \/ CatEcho \/ ProgExit \/ KernelKill \/ NetReset \/ Tick

Spec == Init /\ [][Next]_vars

\* the same, with a pump that keeps running (it is the thread of start())
\* and a clock that advances: select() and sleep() take time, so a loop that
\* goes through them again and again sees the clock move
SpecLive == Init /\ [][Next]_vars /\ WF_vars(Pump) /\ SF_vars(Tick)

(***************************************************************************)
(* Properties of the pump.                                                 *)
(***************************************************************************)
\* C1: a pump session that does not end with a propagated transport error
\* ends either by returning the decoded accumulated buffer or by the deadline
\* error, never both. It ends by the deadline error exactly when the loop-head
\* check found the deadline elapsed before any end of stream, connection reset
\* or broken pipe was observed; once one of these is observed the buffer is
\* returned, even if the deadline has passed meanwhile.
C1_ReturnXorDeadline ==
    (pc = "done" /\ pumpOut # "error") =>
        /\ pumpOut \in {"returned", "timeout"}
        /\ (pumpOut = "timeout") <=> (headExpired /\ observed = "none")
        /\ (pumpOut = "returned") <=> (observed \in {"eof", "reset", "epipe"})
        /\ pumpOut = "timeout" => ret = << << >>, << >> >>
        /\ pumpOut = "returned" => ret = demultiplex_docker_stream(stream_data)
        /\ headExpired => (timeout # Null /\ now - start_time >= timeout)

\* the buffer, with output in it, was returned at end of stream although the
\* deadline had passed during the last iteration
C1_Witness ==
    /\ pc = "done" /\ pumpOut = "returned" /\ observed = "eof"
    /\ timeout # Null /\ now - start_time >= timeout
    /\ ret[1] # << >>

\* C2 as stated: every pump session that ends without a transport error has
\* half-closed the write direction exactly once: before the container was
\* started when no input was supplied, and otherwise after the last byte of
\* input was accepted.
C2_AlwaysHalfClosed ==
    (pc = "done" /\ pumpOut # "error") =>
        /\ Len(shutdowns) = 1
        /\ shutdowns[1].unsent = 0
        /\ shutdowns[1].pc = IF stdin_none \/ stdin0 = << >> THEN "shut0" ELSE "write"

\* C2 (amended): within one pump session the write direction is half-closed
\* at most once and never while unsent input remains. With no input (None or
\* empty) it is half-closed before the container is started and before the
\* loop. With input it is half-closed in the iteration that had the last byte
\* accepted, and not at all in a session that ends (end of stream, reset,
\* broken pipe, deadline) before all input was accepted.
C2_HalfCloseAtMostOnce ==
    api = "start" =>
        /\ Len(shutdowns) <= 1
        /\ \A i \in 1..Len(shutdowns) : shutdowns[i].unsent = 0
        /\ (stdin_none \/ stdin0 = << >>) =>
              /\ (pc \notin {"attach", "shut0"} /\ pumpOut # "error") =>
                    shutdowns = << ShutdownAt("shut0", << >>) >>
              /\ shutdowns # << >> => shutdowns[1].pc = "shut0"
        /\ (~stdin_none /\ stdin0 # << >>) =>
              /\ shutdowns # << >> =>
                    (accepted = stdin0 /\ shutdowns[1].pc = "write")
              /\ (accepted = stdin0 /\ pumpOut # "error") => shutdowns # << >>
              /\ accepted \o stdin = stdin0

\* a session that sent its longest input in several writes and half-closed
\* once, after the last one
C2_Witness ==
    /\ pc = "done" /\ pumpOut = "returned"
    /\ Len(stdin0) = MaxStdin /\ partial
    /\ shutdowns = << ShutdownAt("write", << >>) >>

(***************************************************************************)
(* Properties of start(), destroy() and run().                             *)
(***************************************************************************)
\* C3: start() raises only for a fault of the engine or the transport, never
\* for what the program did: a nonzero exit, an OOM kill and the pump's
\* deadline error all come back as a Result. After the deadline error the
\* Result has timeout = TRUE and the container is as the pump left it: still
\* running unless the process ended by itself, with exit_code null then.
C3_ProgramOutcomesAreResults ==
    /\ last.kind = "raised" => last.faults > 0
    /\ (last.kind # "none" /\ last.faults = 0) => last.kind = "result"
    /\ last.pump = "timeout" =>
          /\ last.kind = "result" /\ last.result.timeout
          /\ (last.prog = "sleep" /\ ~last.killed) =>
                (last.cstate = "running" /\ last.result.exit_code = Null)
    /\ (pc = "done" /\ pumpOut = "timeout" /\ prog = "sleep" /\ ~killed) =>
          cstate = "running"

\* start() has returned a timeout Result and the container is still running
C3_Witness ==
    /\ last.kind = "result" /\ last.pump = "timeout" /\ last.result.timeout
    /\ last.prog = "sleep" /\ last.cstate = "running" /\ cstate = "running"
    /\ sandbox = "running" /\ api = "idle"

\* C4: when the stream ended before the deadline, an exit code of 137 or 152
\* without an OOM report gives timeout = TRUE and a non-null exit_code, 139
\* does not give timeout, and an OOM report gives oom_killed = TRUE,
\* timeout = FALSE and a non-null, nonzero exit_code.
C4_SignalClassification ==
    (last.kind = "result" /\ last.pump = "returned") =>
        /\ (last.exitCode \in {137, 152} /\ ~last.oomKilled) =>
              /\ last.result.timeout
              /\ last.result.exit_code = last.exitCode
              /\ ~last.result.oom_killed
        /\ last.exitCode = 139 => ~last.result.timeout
        /\ last.oomKilled =>
              /\ last.result.oom_killed /\ ~last.result.timeout
              /\ last.result.exit_code \notin {Null, 0}

\* a process killed by SIGXCPU (152) came back as a timeout with its exit code
C4_Witness ==
    /\ last.kind = "result" /\ last.pump = "returned"
    /\ last.killed /\ last.exitCode = 152
    /\ last.result.timeout /\ last.result.exit_code = 152

\* C17: the duration that inspect_exited_container_state reports is the
\* finished timestamp minus the started timestamp when that is not negative
\* and -1 when it is, also for a container that has not finished (its
\* finished timestamp is the zero time or that of an earlier run).
C17_DurationClamped ==
    (last.kind = "result" /\ last.pump = "returned") =>
        LET diff == last.finishedAt - last.startedAt
        IN  /\ diff >= 0 => last.result.duration = diff
            /\ diff < 0 => last.result.duration = 0 - 1
            /\ last.result.duration >= 0 - 1
            /\ last.cstate = "running" => last.result.duration = 0 - 1

\* a container was inspected while it was still running (the connection had
\* been reset): its finished timestamp was the zero time
C17_Witness ==
    /\ last.kind = "result" /\ last.pump = "returned"
    /\ last.cstate = "running" /\ last.finishedAt = 0
    /\ last.finishedAt - last.startedAt < 0 - 1
    /\ last.result.duration = 0 - 1

\* C18: with a deadline, every pump session that has entered its loop ends,
\* by returning the buffer, by the deadline error or by a propagated error,
\* whatever the peer does (no end of stream, never readable or writable,
\* every write answered by a recoverable error), provided time advances.
C18_PumpEnds ==
    (pc = "head" /\ timeout # Null) ~> (pc = "done")

\* a session ended by the deadline although the peer never sent a byte and
\* never accepted one
C18_Witness ==
    /\ pc = "done" /\ pumpOut = "timeout" /\ timeout # Null
    /\ stdin0 # << >> /\ accepted = << >> /\ stream_data = << >>
    /\ prog = "sleep" /\ cstate = "running"

\* C19: the tolerated I/O conditions never end the pump with an error.  A
\* write answered by EINTR, EWOULDBLOCK or EDEADLK counts as zero bytes: the
\* remaining input is unchanged and not empty, nothing is accepted, no
\* half-close is sent, the socket stays open and the loop goes on (to its
\* head or to the idle sleep), so the write is tried again.  A broken pipe on
\* a write and a connection reset on a read both leave the loop through
\* `break`, and the step after `break` returns the decoded buffer.
C19_TransientTolerated ==
    [][ /\ (pc = "write" /\ oserr' \in ERRNO_RECOVERABLE) =>
            /\ stdin' = stdin /\ stdin' # << >>
            /\ accepted' = accepted /\ shutdowns' = shutdowns
            /\ stream_data' = stream_data
            /\ pumpOut' = "none" /\ sock' = "open"
            /\ pc' \in {"head", "sleep"}
        /\ (pc = "write" /\ oserr' = "EPIPE") =>
            /\ pc' = "break" /\ observed' = "epipe" /\ pumpOut' = "none"
            /\ stream_data' = stream_data
        /\ (pc = "read" /\ observed' = "reset") =>
            /\ pc' = "break" /\ pumpOut' = "none"
            /\ stream_data' = stream_data
        /\ (pc = "break" /\ pc' = "done") =>
            /\ pumpOut' = "returned"
            /\ ret' = demultiplex_docker_stream(stream_data)
      ]_vars

\* the write of the iteration just finished was answered by a recoverable
\* errno: the whole input is still pending, the session is still running
C19_Witness ==
    /\ oserr \in ERRNO_RECOVERABLE
    /\ pc \in {"head", "sleep"} /\ pumpOut = "none" /\ sock = "open"
    /\ stdin = stdin0 /\ stdin # << >> /\ shutdowns = << >>

\* C22: the attach socket is closed exactly once on every way out of
\* docker_communicate after the attach (return, deadline error, propagated
\* transport or OS error), never more than once, and once it is closed no
\* step of the session reads, writes or half-closes it: the session is over.
C22_SocketClosedOnce ==
    /\ (pc = "done" /\ sock # "none") => (sock = "closed" /\ closes = 1)
    /\ closes <= 1
    /\ sock = "closed" => pc = "done"

\* C23: in every state of a pump session the bytes the socket has accepted,
\* followed by the remaining input, are the original input, so the input
\* reaches the peer in order, nothing skipped, nothing sent twice, whatever
\* partial writes and recoverable errors occur.  An iteration makes at most
\* one read and one write: only the read step extends the buffer and it goes
\* on to the write step or leaves the loop; only the write step gets bytes
\* accepted and it goes on to the next iteration or leaves the loop.  No
\* write is attempted once the write half has been shut down.
C23_InputIntegrity ==
    [][ /\ accepted' \o stdin' = stdin0'
        /\ (pc = "read" /\ pc' # pc) => pc' \in {"write", "break", "done"}
        /\ (pc = "write" /\ pc' # pc) => pc' \in {"head", "sleep", "break", "done"}
        /\ (stream_data' # stream_data /\ stream_data' # << >>) => pc = "read"
        /\ (accepted' # accepted /\ accepted' # << >>) => pc = "write"
        /\ (pc = "write" /\ write_ready /\ InputRemains) => shutdowns = << >>
      ]_vars

\* a partial write, then a write answered by a recoverable errno: one byte
\* is with the peer, the rest is still to be sent
C23_Witness ==
    /\ partial /\ accepted # << >> /\ stdin # << >>
    /\ oserr \in ERRNO_RECOVERABLE
    /\ accepted \o stdin = stdin0 /\ shutdowns = << >>

(***************************************************************************)
(* working_directory(): a scope that owns a scratch volume, and the run()  *)
(* calls that are given its handle.                                        *)
(***************************************************************************)
\* most run() calls in one scope
MaxRuns == 2

\* the state of the sandbox, the pump and the codec
sandboxVars == <<engineVars, pumpVars, sessionVars, apiVars, codecVars, now>>

\* names of the files the caller passes to run(files=...)
FileNames == {"file", "main.py", "file.txt"}
\* the file a command may write into its working directory
OutputFile == "out"

\* entering `with working_directory() as workdir`: the volume is created
WorkdirEnter ==
    /\ wd = "none"
    /\ wd' = "open" /\ volume' = "present"
    /\ UNCHANGED <<wdExit, volFiles, written, wdSandbox, wdRuns>>
    /\ UNCHANGED <<sandboxVars, utilVars>>

\* run(..., files=files, workdir=workdir) creates its sandbox: the volume is
\* bound as the container's working directory and the files are written there
WorkdirRunCreate(files) ==
    /\ wd = "open" /\ wdSandbox \in {"none", "destroyed"}
    /\ wdRuns < MaxRuns
    /\ wdSandbox' = "created"
    /\ volFiles' = volFiles \cup files
    /\ written' = written \cup files
    /\ UNCHANGED <<wd, wdExit, volume, wdRuns>>
    /\ UNCHANGED <<sandboxVars, utilVars>>

\* run() starts its sandbox; the command may leave a file behind
WorkdirRunStart ==
    /\ wd = "open" /\ wdSandbox = "created"
    /\ wdSandbox' = "exited"
    /\ \E out \in {{}, {OutputFile}} :
          /\ volFiles' = volFiles \cup out
          /\ written' = written \cup out
    /\ UNCHANGED <<wd, wdExit, volume, wdRuns>>
    /\ UNCHANGED <<sandboxVars, utilVars>>

\* a destroy() that takes the bound volume with the container
WorkdirRunDestroyTakesVolume ==
    /\ wd = "open" /\ wdSandbox \in {"created", "exited"}
    /\ wdSandbox' = "destroyed" /\ wdRuns' = wdRuns + 1
    /\ volume' = "absent" /\ volFiles' = {}
    /\ UNCHANGED <<wd, wdExit, written>>
    /\ UNCHANGED <<sandboxVars, utilVars>>

\* run() destroys its sandbox, after start() has returned or raised: the
\* container goes, the volume it was given stays
WorkdirRunDestroy ==
    /\ wd = "open" /\ wdSandbox \in {"created", "exited"}
    /\ wdSandbox' = "destroyed" /\ wdRuns' = wdRuns + 1
    /\ UNCHANGED <<wd, wdExit, volume, volFiles, written>>
    /\ UNCHANGED <<sandboxVars, utilVars>>

\* a scope that removes its volume only when it is left normally
WorkdirExitLeaksOnError(how) ==
    /\ wd = "open" /\ wdSandbox \in {"none", "destroyed"}
    /\ wd' = "closed" /\ wdExit' = how
    /\ IF how = "raised"
       THEN UNCHANGED <<volume, volFiles>>
       ELSE volume' = "absent" /\ volFiles' = {}
    /\ UNCHANGED <<written, wdSandbox, wdRuns>>
    /\ UNCHANGED <<sandboxVars, utilVars>>

\* leaving the scope, normally or by an exception raised inside it: the
\* volume is removed
WorkdirExit(how) ==
    /\ wd = "open" /\ wdSandbox \in {"none", "destroyed"}
    /\ wd' = "closed" /\ wdExit' = how
    /\ volume' = "absent" /\ volFiles' = {}
    /\ UNCHANGED <<written, wdSandbox, wdRuns>>
    /\ UNCHANGED <<sandboxVars, utilVars>>

NextWorkdir ==
    \/ WorkdirEnter
    \/ \E files \in SUBSET FileNames : WorkdirRunCreate(files)
    \/ WorkdirRunStart
    \/ WorkdirRunDestroy
    \/ \E how \in {"normal", "raised"} : WorkdirExit(how)

SpecWorkdir == Init /\ [][NextWorkdir]_vars

\* C11: the volume of a working_directory() scope exists exactly as long as
\* the scope: it is present from entry on, still present with every file
\* written into it after the run() calls given the handle have destroyed
\* their sandboxes, and absent once the scope is left, normally or by an
\* exception.
C11_VolumeLivesWithScope ==
    /\ wd = "none" => volume = "absent"
    /\ wd = "open" => (volume = "present" /\ volFiles = written)
    /\ wd = "closed" => (volume = "absent" /\ wdExit \in {"normal", "raised"})

\* the scope was left by an exception after two run() calls had written files
\* and destroyed their sandboxes
C11_Witness ==
    /\ wd = "closed" /\ wdExit = "raised" /\ volume = "absent"
    /\ wdRuns = MaxRuns /\ written # {}

(***************************************************************************)
(* The resource limit translator: merge_limits_defaults, create_ulimits.   *)
(***************************************************************************)
\* largest limit value a caller passes
MaxLimit == 2

LimitFields == {"cputime", "realtime", "memory", "processes", "file_size"}
\* None, -1 (unlimited processes) and small numbers
LimitValues == {Null} \cup ((0 - 1)..MaxLimit)

\* config.CPU_TO_REAL_TIME_FACTOR
CPU_TO_REAL_TIME_FACTOR == 5

\* the `limits` arguments: None, {} and every partial dict over the fields
CallerLimits ==
    {[none |-> TRUE, d |-> << >>]}
        \cup {[none |-> FALSE, d |-> f] :
                 f \in UNION {[S -> LimitValues] : S \in SUBSET LimitFields}}

\* `not limits`: None or {}
NoLimits(l) == l.none \/ DOMAIN l.d = {}

\* a merge that derives realtime from cputime even when the caller gave one
merge_limits_always_derives(l) ==
    IF NoLimits(l)
    THEN [raised |-> FALSE, d |-> DEFAULT_LIMITS]
    ELSE LET filled == [f \in DOMAIN l.d \cup DOMAIN DEFAULT_LIMITS |->
                          IF f \in DOMAIN l.d THEN l.d[f] ELSE DEFAULT_LIMITS[f]]
         IN  IF filled["cputime"] = Null
             THEN [raised |-> TRUE, d |-> filled]
             ELSE [raised |-> FALSE,
                   d |-> [filled EXCEPT !["realtime"] =
                            filled["cputime"] * CPU_TO_REAL_TIME_FACTOR]]

\* the body of merge_limits_defaults, reading `config` as the contents of
\* config.DEFAULT_LIMITS: the merged dict, or that it raised (None * int is
\* a TypeError)
merge_limits_from(l, config) ==
    IF NoLimits(l)
    THEN [raised |-> FALSE, d |-> config]
    ELSE LET is_realtime_specified == "realtime" \in DOMAIN l.d
             filled == [f \in DOMAIN l.d \cup DOMAIN config |->
                          IF f \in DOMAIN l.d THEN l.d[f] ELSE config[f]]
         IN  IF is_realtime_specified
             THEN [raised |-> FALSE, d |-> filled]
             ELSE IF filled["cputime"] = Null
                  THEN [raised |-> TRUE, d |-> filled]
                  ELSE [raised |-> FALSE,
                        d |-> [filled EXCEPT !["realtime"] =
                                 filled["cputime"] * CPU_TO_REAL_TIME_FACTOR]]

\* merge_limits_defaults(limits) with the defaults as config.py defines them
merge_limits_defaults(l) == merge_limits_from(l, DEFAULT_LIMITS)

\* Ulimit(name=name, soft=value, hard=value)
Ulimit(name, value) == [name |-> name, soft |-> value, hard |-> value]

\* `ulimits or None`
ListOrNone(list) == [none |-> list = << >>, list |-> list]

\* create_ulimits(limits)
create_ulimits(d) ==
    LET cpu == IF d["cputime"] # Null /\ d["cputime"] # 0
               THEN << Ulimit("cpu", d["cputime"]) >> ELSE << >>
        fsize == IF "file_size" \in DOMAIN d
                 THEN << Ulimit("fsize", d["file_size"]) >> ELSE << >>
    IN  ListOrNone(cpu \o fsize)

InitLimits ==
    /\ EngineInit /\ PumpInit /\ SessionInit /\ ApiInit
    /\ frames = << >> /\ chunks = 0 /\ now = 0
    /\ WorkdirInit /\ TruncInit /\ ClientsInit
    /\ limits \in CallerLimits
    /\ merged = [raised |-> FALSE, d |-> << >>]
    /\ ulimits = ListOrNone(<< >>) /\ lpc = "drawn"
    /\ DictsInit

\* limits = merge_limits_defaults(limits), in create()
LimitsMerge ==
    /\ lpc = "drawn"
    /\ merged' = merge_limits_defaults(limits)
    /\ lpc' = IF merged'.raised THEN "raised" ELSE "merged"
    /\ UNCHANGED <<limits, ulimits, dictVars>>
    /\ UNCHANGED <<sandboxVars, workdirVars, truncVars, clientVars>>

\* ulimits = create_ulimits(limits), in create()
LimitsUlimits ==
    /\ lpc = "merged"
    /\ ulimits' = create_ulimits(merged.d)
    /\ lpc' = "done"
    /\ UNCHANGED <<limits, merged, dictVars>>
    /\ UNCHANGED <<sandboxVars, workdirVars, truncVars, clientVars>>

NextLimits == LimitsMerge \/ LimitsUlimits

SpecLimits == InitLimits /\ [][NextLimits]_vars

\* C12: when merge_limits_defaults returns for a non-empty limit set, the
\* merged realtime is the merged cputime (the caller's, or the default) times
\* K if the caller gave no realtime, and the caller's realtime unchanged if
\* the caller gave one; an absent or empty limit set gives the default set
\* as it is.
C12_DerivedRealtime ==
    (lpc \in {"merged", "done"}) =>
        IF NoLimits(limits)
        THEN merged.d = DEFAULT_LIMITS
        ELSE /\ merged.d["cputime"] =
                  IF "cputime" \in DOMAIN limits.d THEN limits.d["cputime"]
                  ELSE DEFAULT_LIMITS["cputime"]
             /\ "realtime" \in DOMAIN limits.d =>
                  merged.d["realtime"] = limits.d["realtime"]
             /\ "realtime" \notin DOMAIN limits.d =>
                  merged.d["realtime"] =
                      merged.d["cputime"] * CPU_TO_REAL_TIME_FACTOR

\* {cputime: 2} was merged to realtime 2 * K, with the other fields defaulted
C12_Witness ==
    /\ lpc = "merged" /\ DOMAIN limits.d = {"cputime"}
    /\ limits.d["cputime"] = MaxLimit
    /\ merged.d["realtime"] = MaxLimit * CPU_TO_REAL_TIME_FACTOR
    /\ merged.d["memory"] = DEFAULT_LIMITS["memory"]

\* C14: merge_limits_defaults is total over the limit sets whose fields are
\* absent, None or a number: it returns without error, and the returned set
\* has all five fields.
C14_MergeIsTotal ==
    lpc # "drawn" =>
        /\ ~merged.raised
        /\ DOMAIN merged.d = LimitFields

\* the entries of `list` with the given name
UlimitsNamed(list, name) == {i \in 1..Len(list) : list[i].name = name}

\* C16: create_ulimits gives a CPU ulimit with soft = hard = cputime exactly
\* when cputime is nonzero and not None, a file-size ulimit with
\* soft = hard = file_size exactly when file_size is set, and None (never an
\* empty list) exactly when neither is the case.
C16_UlimitsWhenSet ==
    lpc = "done" =>
        LET d == merged.d
            cpuSet == d["cputime"] # Null /\ d["cputime"] # 0
            fsizeSet == "file_size" \in DOMAIN d /\ d["file_size"] # Null
            list == ulimits.list
        IN  /\ (UlimitsNamed(list, "cpu") # {}) <=> cpuSet
            /\ (UlimitsNamed(list, "fsize") # {}) <=> fsizeSet
            /\ \A i \in UlimitsNamed(list, "cpu") :
                  list[i] = Ulimit("cpu", d["cputime"])
            /\ \A i \in UlimitsNamed(list, "fsize") :
                  list[i] = Ulimit("fsize", d["file_size"])
            /\ ulimits.none <=> (~cpuSet /\ ~fsizeSet)
            /\ ~ulimits.none => list # << >>

(***************************************************************************)
(* merge_limits_defaults on dict objects: which object it returns and      *)
(* which it writes, over several calls by one caller.                      *)
(***************************************************************************)
\* most calls of merge_limits_defaults
MaxMerges == 3
\* most assignments the caller makes to a returned dict
MaxEdits == 1

\* the dicts a caller passes: None, {} and the dicts with one field
MergeArgs ==
    {l \in CallerLimits : Cardinality(DOMAIN l.d) <= 1}

InitMerge ==
    /\ EngineInit /\ PumpInit /\ SessionInit /\ ApiInit
    /\ frames = << >> /\ chunks = 0 /\ now = 0
    /\ WorkdirInit /\ TruncInit /\ ClientsInit
    /\ limits = [none |-> TRUE, d |-> << >>]
    /\ merged = [raised |-> FALSE, d |-> << >>]
    /\ ulimits = ListOrNone(<< >>) /\ lpc = "idle"
    /\ defaults = DEFAULT_LIMITS
    /\ cdict \in MergeArgs
    /\ mret = NoMerge /\ mcalls = 0 /\ medits = 0

\* merge_limits_defaults(limits) called with the caller's `limits`:
\* `return config.DEFAULT_LIMITS` hands out the shared object; otherwise
\* `limits[limit_name] = default_value` and `limits["realtime"] = ...` write
\* the caller's dict, which is what `return limits` returns (the writes made
\* before a TypeError stay)
MergeCall ==
    /\ mcalls < MaxMerges
    /\ mcalls' = mcalls + 1
    /\ LET r == merge_limits_from(cdict, defaults)
       IN  IF NoLimits(cdict)
           THEN /\ mret' = [ref |-> "defaults", d |-> r.d,
                            arg |-> cdict, after |-> cdict]
                /\ UNCHANGED cdict
           ELSE /\ cdict' = [none |-> FALSE, d |-> r.d]
                /\ mret' = [ref |-> IF r.raised THEN "raised" ELSE "caller",
                            d |-> r.d, arg |-> cdict, after |-> cdict']
    /\ UNCHANGED <<defaults, medits>>
    /\ UNCHANGED <<limits, merged, ulimits, lpc>>
    /\ UNCHANGED <<sandboxVars, workdirVars, truncVars, clientVars>>

\* the caller assigns to a field of the dict the last call returned
MergeEdit(f, v) ==
    /\ medits < MaxEdits
    /\ medits' = medits + 1
    /\ \/ /\ mret.ref = "defaults"
          /\ defaults' = [defaults EXCEPT ![f] = v]
          /\ UNCHANGED cdict
       \/ /\ mret.ref = "caller" /\ cdict = mret.after
          /\ cdict' = [cdict EXCEPT !.d[f] = v]
          /\ UNCHANGED defaults
    /\ UNCHANGED <<mret, mcalls>>
    /\ UNCHANGED <<limits, merged, ulimits, lpc>>
    /\ UNCHANGED <<sandboxVars, workdirVars, truncVars, clientVars>>

\* the caller builds the `limits` of its next call
MergeNewArg(l) ==
    /\ mcalls > 0 /\ mcalls < MaxMerges
    /\ cdict # l
    /\ cdict' = l
    /\ UNCHANGED <<defaults, mret, mcalls, medits>>
    /\ UNCHANGED <<limits, merged, ulimits, lpc>>
    /\ UNCHANGED <<sandboxVars, workdirVars, truncVars, clientVars>>

NextMerge ==
    \/ MergeCall
    \/ \E f \in LimitFields, v \in LimitValues : MergeEdit(f, v)
    \/ \E l \in MergeArgs : MergeNewArg(l)

SpecMerge == InitMerge /\ [][NextMerge]_vars

\* C21: merge_limits_defaults merges into a fresh dict.  Whatever calls were
\* made and whatever the caller assigned to the dicts it got back, the
\* process-wide defaults are as config.py defines them; no call returned the
\* defaults object itself; every call left the dict it was given as it was;
\* and every merge of an absent or empty limit set returned the same
\* fully-defaulted set.
C21_MergeIntoFresh ==
    /\ defaults = DEFAULT_LIMITS
    /\ mret.ref # "defaults"
    /\ mret.ref # "none" => mret.after = mret.arg
    /\ (mret.ref # "none" /\ NoLimits(mret.arg)) => mret.d = DEFAULT_LIMITS

(***************************************************************************)
(* truncate_result, and the Result that start() returns.                   *)
(***************************************************************************)
\* how far over the cap the longest captured output is
MaxOver == 2

MAX_OUTPUT_LENGTH == 100
\* b" *** truncated ***"
TruncatedMarker == <<32, 42, 42, 42, 32, 116, 114, 117, 110, 99, 97, 116, 101, 100, 32, 42, 42, 42>>

\* an output of n bytes
OutputOf(n) == [i \in 1..n |-> 65 + (i % 26)]
\* lengths around the cap
OutputLengths ==
    {0, 1, MAX_OUTPUT_LENGTH - 1} \cup (MAX_OUTPUT_LENGTH..(MAX_OUTPUT_LENGTH + MaxOver))
\* the Results start() may have built
CapturedResults ==
    [exit_code : {Null, 0, 1}, stdout : {OutputOf(n) : n \in OutputLengths},
     stderr : {OutputOf(n) : n \in OutputLengths}, duration : {0 - 1, 0},
     timeout : BOOLEAN, oom_killed : BOOLEAN]

\* a truncation that also marks a field of exactly the cap
truncate_result_at_cap(result) ==
    [k \in DOMAIN result |->
        IF k \in {"stdout", "stderr"} /\ Len(result[k]) >= MAX_OUTPUT_LENGTH
        THEN Slice(result[k], 0, MAX_OUTPUT_LENGTH) \o TruncatedMarker
        ELSE result[k]]

\* truncate_result(result)
truncate_result(result) ==
    [k \in DOMAIN result |->
        IF k \in {"stdout", "stderr"} /\ Len(result[k]) > MAX_OUTPUT_LENGTH
        THEN Slice(result[k], 0, MAX_OUTPUT_LENGTH) \o TruncatedMarker
        ELSE result[k]]

InitTrunc ==
    /\ EngineInit /\ PumpInit /\ SessionInit /\ ApiInit
    /\ frames = << >> /\ chunks = 0 /\ now = 0
    /\ WorkdirInit /\ LimitsInit /\ ClientsInit
    /\ captured \in CapturedResults
    /\ returned = NoResult /\ logged = NoResult /\ tpc = "built"

\* the Result is shortened for the log
TruncLog ==
    /\ tpc = "built"
    /\ logged' = truncate_result(captured)
    /\ tpc' = "logged"
    /\ UNCHANGED <<captured, returned>>
    /\ UNCHANGED <<sandboxVars, workdirVars, limitsVars, clientVars>>

\* start() returns the Result with the output as it was captured
TruncReturn ==
    /\ tpc = "logged"
    /\ returned' = captured
    /\ tpc' = "done"
    /\ UNCHANGED <<captured, logged>>
    /\ UNCHANGED <<sandboxVars, workdirVars, limitsVars, clientVars>>

NextTrunc == TruncLog \/ TruncReturn

SpecTrunc == InitTrunc /\ [][NextTrunc]_vars

\* `field` is `original` cut to the cap and marked if it was longer, and
\* `original` itself otherwise
IsTruncationOf(field, original) ==
    IF Len(original) > MAX_OUTPUT_LENGTH
    THEN /\ Len(field) = MAX_OUTPUT_LENGTH + Len(TruncatedMarker)
         /\ SubSeq(field, 1, MAX_OUTPUT_LENGTH) = SubSeq(original, 1, MAX_OUTPUT_LENGTH)
         /\ SubSeq(field, MAX_OUTPUT_LENGTH + 1, Len(field)) = TruncatedMarker
    ELSE field = original

\* the fields of a Result other than the outputs
OtherFields(result) ==
    <<result.exit_code, result.duration, result.timeout, result.oom_killed>>

\* C13 as stated: the Result that start() returns has stdout and stderr
\* truncated to the cap plus the marker, and its other fields unchanged.
C13_StartReturnsTruncated ==
    tpc = "done" =>
        /\ IsTruncationOf(returned.stdout, captured.stdout)
        /\ IsTruncationOf(returned.stderr, captured.stderr)
        /\ OtherFields(returned) = OtherFields(captured)

\* C13 (amended): truncate_result gives a Result in which a stdout or stderr
\* longer than the cap is its first cap bytes followed by the marker, a field
\* at or under the cap is unchanged and the other fields are unchanged; the
\* Result that start() returns has the captured output whole.
C13_TruncateResult ==
    /\ tpc \in {"logged", "done"} =>
          /\ IsTruncationOf(logged.stdout, captured.stdout)
          /\ IsTruncationOf(logged.stderr, captured.stderr)
          /\ OtherFields(logged) = OtherFields(captured)
    /\ tpc = "done" => returned = captured

\* a stdout over the cap was cut and marked, a stderr of exactly the cap was
\* left alone, and start() returned both whole
C13_Witness ==
    /\ tpc = "done"
    /\ Len(captured.stdout) = MAX_OUTPUT_LENGTH + MaxOver
    /\ Len(captured.stderr) = MAX_OUTPUT_LENGTH
    /\ Len(logged.stdout) = MAX_OUTPUT_LENGTH + Len(TruncatedMarker)
    /\ logged.stderr = captured.stderr
    /\ returned.stdout = captured.stdout

(***************************************************************************)
(* get_docker_client: the cache of engine clients, used by several threads.*)
(* A thread may be preempted between any two statements.                   *)
(***************************************************************************)
\* clients created so far, for all keys
ClientsCreated == nclients["(500,)"] + nclients["(404, 500)"]

\* thread t calls get_docker_client with the retry policy `key`
ClientCall(t, key) ==
    /\ cpc[t] \in {"idle", "done"} /\ ccalls[t] < MaxCalls
    /\ cpc' = [cpc EXCEPT ![t] = "check"]
    /\ ckey' = [ckey EXCEPT ![t] = key]
    /\ cclient' = [cclient EXCEPT ![t] = 0]
    /\ cret' = [cret EXCEPT ![t] = 0]
    /\ ccalls' = [ccalls EXCEPT ![t] = @ + 1]
    /\ UNCHANGED <<cache, nclients>>
    /\ UNCHANGED <<sandboxVars, workdirVars, limitsVars, truncVars>>

\* if client_key not in _DOCKER_CLIENTS
ClientCheck(t) ==
    /\ cpc[t] = "check"
    /\ cpc' = [cpc EXCEPT ![t] = IF cache[ckey[t]] = 0 THEN "create" ELSE "return"]
    /\ UNCHANGED <<cache, nclients, ckey, cclient, cret, ccalls>>
    /\ UNCHANGED <<sandboxVars, workdirVars, limitsVars, truncVars>>

\* client = docker.DockerClient(...); client.api.mount(...)
ClientCreate(t) ==
    /\ cpc[t] = "create"
    /\ cclient' = [cclient EXCEPT ![t] = ClientsCreated + 1]
    /\ nclients' = [nclients EXCEPT ![ckey[t]] = @ + 1]
    /\ cpc' = [cpc EXCEPT ![t] = "store"]
    /\ UNCHANGED <<cache, ckey, cret, ccalls>>
    /\ UNCHANGED <<sandboxVars, workdirVars, limitsVars, truncVars>>

\* _DOCKER_CLIENTS[client_key] = client
ClientStore(t) ==
    /\ cpc[t] = "store"
    /\ cache' = [cache EXCEPT ![ckey[t]] = cclient[t]]
    /\ cpc' = [cpc EXCEPT ![t] = "return"]
    /\ UNCHANGED <<nclients, ckey, cclient, cret, ccalls>>
    /\ UNCHANGED <<sandboxVars, workdirVars, limitsVars, truncVars>>

\* return _DOCKER_CLIENTS[client_key]
ClientReturn(t) ==
    /\ cpc[t] = "return"
    /\ cret' = [cret EXCEPT ![t] = cache[ckey[t]]]
    /\ cpc' = [cpc EXCEPT ![t] = "done"]
    /\ UNCHANGED <<cache, nclients, ckey, cclient, ccalls>>
    /\ UNCHANGED <<sandboxVars, workdirVars, limitsVars, truncVars>>

NextClients ==
    \E t \in Threads :
        \/ \E key \in ClientKeys : ClientCall(t, key)
        \/ ClientCheck(t)
        \/ ClientCreate(t)
        \/ ClientStore(t)
        \/ ClientReturn(t)

SpecClients == Init /\ [][NextClients]_vars

\* C15: under every interleaving of concurrent get_docker_client calls,
\* exactly one client is created for a key, every caller of the key gets
\* that client, and a key's client in the cache is never replaced.
C15_OneClientPerKey ==
    /\ \A key \in ClientKeys : nclients[key] <= 1
    /\ \A t, u \in Threads :
          (cpc[t] = "done" /\ cpc[u] = "done" /\ ckey[t] = ckey[u]) =>
              cret[t] = cret[u]
    /\ \A t \in Threads : cpc[t] = "done" => cret[t] = cache[ckey[t]]

\* p is a prefix of q
IsPrefix(p, q) == Len(p) <= Len(q) /\ p = SubSeq(q, 1, Len(p))

\* C20: decoding any byte prefix of a stream of valid frames (cut inside a
\* header, inside a payload, after a frame of length zero) ends without an
\* error; with fewer than 8 bytes it finds no frame; and the stdout and the
\* stderr it returns are prefixes of those it returns for the whole stream.
C20_DemuxTotalOnPrefixes ==
    pc = "codec_cut" =>
        LET whole == demultiplex_docker_stream(EncodeFrames(frames))
        IN  /\ IsPrefix(stream_data, EncodeFrames(frames))
            /\ IsPrefix(ret[1], whole[1])
            /\ IsPrefix(ret[2], whole[2])
            /\ Len(stream_data) < STREAM_HEADER_SIZE_BYTES =>
                   ret = << << >>, << >> >>

\* a stream cut inside the header of its second frame, after a stdout frame
\* with payload: the first payload is returned, the partial header is not
C20_Witness ==
    /\ pc = "codec_cut"
    /\ Len(frames) = 2
    /\ frames[1].id = 1 /\ frames[1].payload # << >>
    /\ frames[2].id = 1
    /\ LET first == Len(EncodeFrame(frames[1].id, frames[1].pad, frames[1].payload))
       IN  /\ Len(stream_data) > first
           /\ Len(stream_data) < first + STREAM_HEADER_SIZE_BYTES
    /\ ret[1] = frames[1].payload

\* C6: for a command that echoes its standard input and exits at end of
\* input (cat), a start() whose stream reached end of stream within the
\* deadline returns stdout equal to the supplied stdin byte for byte, with
\* exit_code 0 and timeout = FALSE, however many partial writes and reads it
\* took; empty or absent input gives empty stdout.
C6_CatEchoesStdin ==
    (/\ last.kind = "result" /\ last.prog = "cat"
     /\ last.pump = "returned" /\ last.observed = "eof") =>
        /\ last.result.stdout = last.input
        /\ last.result.stderr = << >>
        /\ last.result.exit_code = 0
        /\ ~last.result.timeout

\* the longest input came back whole after partial writes
C6_Witness ==
    /\ last.kind = "result" /\ last.prog = "cat" /\ last.observed = "eof"
    /\ Len(last.input) = MaxStdin /\ last.partial
    /\ last.result.stdout = last.input /\ last.result.exit_code = 0

\* C7: every start() of a sandbox works on the one container made by
\* create(); a Result holds only output produced during its own call (for
\* cat: a prefix of that call's input, nothing for the other programs), never
\* output of an earlier start; and after a start whose pump returned, the
\* sandbox is exited (until it is started again or destroyed).
C7_RestartsReuseContainer ==
    /\ sandbox # "none" => ncreated = 1
    /\ api = "start" => (ncreated = 1 /\ cstate # "removed")
    /\ last.kind = "result" =>
          /\ IsPrefix(last.result.stdout, last.input)
          /\ last.prog # "cat" => last.result.stdout = << >>
          /\ last.result.stderr = << >>
    /\ (last.kind = "result" /\ last.pump = "returned") =>
          sandbox \in {"exited", "destroyed"}

\* the second start of a container that had output in its first run returned
\* without any output
C7_Witness ==
    /\ nstarts = 2 /\ clog # << >>
    /\ last.kind = "result" /\ last.pump = "returned" /\ last.observed = "eof"
    /\ last.result.stdout = << >>
    /\ sandbox = "exited" /\ ncreated = 1

\* C8: in every Result, exit_code is null only when the process was still
\* running at the expiry of the deadline: a null exit_code comes with
\* timeout = TRUE and a container that has not terminated, and a Result with
\* timeout = FALSE has a non-null exit_code.
C8_NullExitCodeOnlyOnTimeout ==
    last.kind = "result" =>
        /\ last.result.exit_code = Null =>
              (last.result.timeout /\ last.pump = "timeout"
                 /\ last.cstate = "running")
        /\ ~last.result.timeout => last.result.exit_code # Null

\* a Result without exit code: cat was still waiting for input at the deadline
C8_Witness ==
    /\ last.kind = "result" /\ last.result.exit_code = Null
    /\ last.result.timeout /\ last.prog = "cat" /\ last.cstate = "running"

\* C9: after destroy(), or after leaving the scope of create(), the
\* container does not exist any more, whether the sandbox was created and
\* never started, exited, or still running after a timeout Result.
C9_DestroyRemovesContainer ==
    /\ sandbox = "destroyed" => cstate = "removed"
    /\ destroyedFrom # "none" => (cstate = "removed" /\ sandbox = "destroyed")

\* a sandbox whose container was still running after a timeout Result was
\* destroyed by its owner
C9_Witness ==
    /\ mode = "scope" /\ sandbox = "destroyed" /\ cstate = "removed"
    /\ destroyedFrom = "running"
    /\ last.kind = "result" /\ last.result.timeout

\* C10: when run() has returned or raised, the container it created does not
\* exist any more: after a normal Result, after a timeout Result and after
\* an engine error in start().
C10_RunAlwaysDestroys ==
    runOut # "none" => (cstate = "removed" /\ sandbox = "destroyed")

\* run() has raised the engine error of start() and the container is gone
C10_Witness ==
    /\ mode = "run" /\ runOut = "raised" /\ last.kind = "raised"
    /\ cstate = "removed"

====
